---- MODULE Spec2Model ----
(***************************************************************************)
(* Model of the persistence/fallback client of the karaoke application     *)
(* (src/singsationsadec/lib/api.ts, class ApiClient).                      *)
(*                                                                         *)
(* localStorage is a string-keyed store; an absent key reads as null.      *)
(* Strings that the client concatenates (emails, display names, the CSV    *)
(* export) are sequences of one-character strings; strings that are only   *)
(* compared (messages, secrets, tags) are TLA+ strings.  An optional value *)
(* (null / undefined) is Null, a present one v is Some(v).                 *)
(***************************************************************************)
EXTENDS Integers, Sequences, FiniteSets, TLC

VARIABLES
    localStorage,   \* the browser's durable key-value store
    now,            \* the wall clock read by Date.now() / new Date(), in ms
    useFallback,    \* the module-level flag USE_FALLBACK of the build
    pending,        \* savePurchase calls suspended on their remote call (remote mode)
    last,           \* the call that completed last: operation, arguments, result
    created,        \* history: what each successful signup was given and returned
    loggedBy,       \* history: for each stored activity, the email of the account
                    \* that was current when logActivity wrote it
    session         \* one visit of the recording screen (KaraokeRecording): its
                    \* React state, its refs, and the capture platform under it

apiVars == <<localStorage, now, useFallback, pending, last, created, loggedBy>>

vars == <<localStorage, now, useFallback, pending, last, created, loggedBy, session>>

----------------------------------------------------------------------------
(* Bounds of the model *)

MaxClock == 2       \* the clock runs from 1 to MaxClock
MaxUsers == 2       \* accounts in the account list
MaxActs == 3        \* events in the activity log
MaxPurchases == 1   \* records in the purchase list
MaxPending == 1     \* savePurchase calls in flight at once
MaxLimit == 3       \* largest limit given to getTopUsers
MaxPurchasesAlone == 3  \* records in the purchase list while no account exists
MaxPendingAlone == 2    \* savePurchase calls in flight while no account exists
MaxRequests == 2        \* getUserMedia calls not yet answered
MaxStreams == 2         \* capture streams granted in one visit
MaxRecorders == 2       \* MediaRecorder objects made in one visit
MaxBasicRetries == 1    \* automatic retries with basic settings waiting for their timer
MaxChunks == 2          \* chunks with data captured in one visit
MaxRecordingTime == 2   \* largest value of the elapsed-time counter

----------------------------------------------------------------------------
(* Host-provided conversions *)

\* JSON.stringify / JSON.parse of the plain records the client stores: the
\* text is a different value from the data, and parsing it gives the data back
\* (an undefined property is dropped and reads back as undefined).
JSONstringify(v) == <<"json", v>>
JSONparse(s) == s[2]

\* new Date().toISOString() and new Date(iso).getTime(): exact to the millisecond
toISOString(ms) == <<"iso", ms>>
DateGetTime(iso) == iso[2]

----------------------------------------------------------------------------
(* Values *)

Null == <<>>
Some(v) == <<v>>
Get(opt) == opt[1]

Keys == {"fallback_users", "auth_token", "user_data", "user_activities", "user_purchases"}

EmailA == <<"a", "@", "x">>
EmailB == <<"b", "@", "x">>
EmailC == <<"c", "@", "x">>
Emails == {EmailA, EmailB, EmailC}
Passwords == {"p1", "p2"}
\* The people who sign up: what each types into the form.  The first two share an
\* email; one display name is absent, one plain, one has a line break in it.
Registrations ==
    { [email |-> EmailA, password |-> "p1", phone |-> Null, name |-> Null],
      [email |-> EmailA, password |-> "p2", phone |-> Null, name |-> Some(<<"A", "l">>)],
      [email |-> EmailB, password |-> "p2", phone |-> Null, name |-> Some(<<"B", "\n", "o">>)],
      [email |-> EmailC, password |-> "p1", phone |-> Null, name |-> Some(<<"C", "y">>)] }
RandomSuffixes == {"k3x9"}
SongTitles == {"song"}
Categories == {"adults"}
Amounts == {5}
\* what callers hand to savePurchase.  The owner is whatever number the caller
\* gives: 1 is the identifier of the account created at clock 1, if there is one.
PurchaseInputs ==
    { [user_id |-> 1, song_title |-> "song", artist_name |-> "artist",
       category |-> "adults", video_url |-> "blob:1", amount |-> 5] }

\* how a remote call ends: the 5 s / 10 s abort, a transport error, a non-2xx
\* status, or a 2xx status with a JSON body
RemoteFailures == {"timeout", "network_error", "http_error"}
NoBody == [success |-> FALSE, message |-> "", user |-> Null, token |-> Null]

\* bodies the remote API answers signup and signin with
RemoteUser(email) ==
    [id |-> 7, email |-> email, phone |-> Null, name |-> Null, created_at |-> toISOString(1)]
RemoteAuthBodies(email) ==
    { [success |-> TRUE, message |-> "ok", user |-> Some(RemoteUser(email)),
       token |-> Some(<<"remote_token_", 7>>)],
      [success |-> FALSE, message |-> "rejected by server", user |-> Null, token |-> Null] }
\* a body AuthResponse also allows: success and a token, and no user
RemotePartialBodies ==
    { [success |-> TRUE, message |-> "ok", user |-> Null,
       token |-> Some(<<"remote_token_", 7>>)] }
\* bodies the remote API answers a purchase with
RemotePurchaseBodies ==
    { [success |-> TRUE, message |-> "stored"], [success |-> FALSE, message |-> "refused"] }
\* the ways a remote call settles: an outcome and, with "ok", the body
Replies(bodies) ==
    { [outcome |-> o, data |-> NoBody] : o \in RemoteFailures }
    \cup { [outcome |-> "ok", data |-> b] : b \in bodies }

USE_FALLBACK == TRUE

MsgExists == "User already exists with this email."
MsgCreated == "Account created successfully!"
MsgInvalid == "Invalid email or password."
MsgSignedIn == "Signed in successfully!"

----------------------------------------------------------------------------
(* localStorage and arrays *)

\* localStorage.getItem / setItem / removeItem
getItem(ls, k) == ls[k]
setItem(ls, k, v) == [ls EXCEPT ![k] = v]
removeItem(ls, k) == [ls EXCEPT ![k] = Null]

\* JSON.parse(localStorage.getItem(k) || "[]")
ParseList(ls, k) == IF getItem(ls, k) = Null THEN <<>> ELSE JSONparse(getItem(ls, k))

\* the elements of a sequence; a sequence without its i-th element
Range(s) == {s[i] : i \in DOMAIN s}
RemoveAt(s, i) == SubSeq(s, 1, i - 1) \o SubSeq(s, i + 1, Len(s))

\* Array.prototype.find: the first element satisfying the test, as an index (0:
\* none); hits are the indices of the elements that satisfy it
FirstIndex(hits) ==
    IF hits = {} THEN 0 ELSE CHOOSE i \in hits : \A j \in hits : i <= j

\* faulty variant: the comparator turned round, (a, b) => key(a) - key(b)
SortDescending_Ascending(s, keys) ==
    LET n == Len(s)
        Rank(i) == Cardinality({j \in 1..n : keys[j] < keys[i]})
                   + Cardinality({j \in 1..(i - 1) : keys[j] = keys[i]}) + 1
    IN  [p \in 1..n |-> s[CHOOSE i \in 1..n : Rank(i) = p]]

\* faulty variant: an unstable sort: elements with equal keys come out in reverse
SortDescending_Unstable(s, keys) ==
    LET n == Len(s)
        Rank(i) == Cardinality({j \in 1..n : keys[j] > keys[i]})
                   + Cardinality({j \in (i + 1)..n : keys[j] = keys[i]}) + 1
    IN  [p \in 1..n |-> s[CHOOSE i \in 1..n : Rank(i) = p]]

\* Array.prototype.sort with the comparator (a, b) => key(b) - key(a), keys[i] being
\* the key of s[i].  The sort is stable: an element goes after every element with
\* a greater key and after the elements with an equal key that preceded it.
SortDescending(s, keys) ==
    LET n == Len(s)
        Rank(i) == Cardinality({j \in 1..n : keys[j] > keys[i]})
                   + Cardinality({j \in 1..(i - 1) : keys[j] = keys[i]}) + 1
    IN  [p \in 1..n |-> s[CHOOSE i \in 1..n : Rank(i) = p]]

\* Array.prototype.slice(0, end)
Slice0(s, end) ==
    LET n == Len(s)
        e == IF end < 0 THEN (IF n + end < 0 THEN 0 ELSE n + end)
             ELSE (IF end > n THEN n ELSE end)
    IN  SubSeq(s, 1, e)

\* String(n) for a non-negative integer
DigitChar == <<"0", "1", "2", "3", "4", "5", "6", "7", "8", "9">>
RECURSIVE NumberToString(_)
NumberToString(n) ==
    IF n < 10 THEN <<DigitChar[n + 1]>>
    ELSE NumberToString(n \div 10) \o <<DigitChar[(n % 10) + 1]>>

\* Array.prototype.join
RECURSIVE Join(_, _)
Join(parts, sep) ==
    IF parts = <<>> THEN <<>>
    ELSE IF Len(parts) = 1 THEN parts[1]
    ELSE parts[1] \o sep \o Join(Tail(parts), sep)

\* new Date(iso).toLocaleString(): a date, a comma, a time; never a line break
toLocaleString(iso) ==
    NumberToString(DateGetTime(iso)) \o <<",", " ">> \o <<"A", "M">>

----------------------------------------------------------------------------
(* ApiClient *)

getAuthToken(ls) == getItem(ls, "auth_token")

\* what localStorage holds after setItem(key, JSON.stringify(undefined)): the text
\* "undefined", which JSON.parse rejects with a SyntaxError
UndefinedText == <<"text", "undefined">>

\* how a call of getCurrentUser ends on a store: with null, with the cached
\* Account, or with the SyntaxError of JSON.parse
getCurrentUserOutcome(ls) ==
    IF getItem(ls, "user_data") = Null THEN "null"
    ELSE IF getItem(ls, "user_data") = UndefinedText THEN "throws"
    ELSE "account"

getCurrentUser(ls) ==
    IF getItem(ls, "user_data") = Null THEN Null
    ELSE Some(JSONparse(getItem(ls, "user_data")))

isAuthenticated(ls) == getAuthToken(ls) /= Null

\* faulty variant: the stored record is passed on as it is
WithoutPassword_Keeps(u) == u

WithoutPassword(u) ==
    [id |-> u.id, email |-> u.email, phone |-> u.phone, name |-> u.name,
     created_at |-> u.created_at]

TokenFor(id) == <<"fallback_token_", id>>

DuplicateAccount ==
    [success |-> FALSE, message |-> MsgExists, user |-> Null, token |-> Null]
InvalidCredentials ==
    [success |-> FALSE, message |-> MsgInvalid, user |-> Null, token |-> Null]

\* faulty variant: the new account replaces the stored list
createAccount_Replaces(ls, email, password, phone, name, t) ==
    LET newUser == [id |-> t, email |-> email, phone |-> phone, name |-> name,
                    created_at |-> toISOString(t)]
        userData == [id |-> t, email |-> email, phone |-> phone, name |-> name,
                     created_at |-> toISOString(t), password |-> password]
        ls1 == setItem(ls, "fallback_users", JSONstringify(<<userData>>))
        ls2 == setItem(ls1, "auth_token", TokenFor(newUser.id))
        ls3 == setItem(ls2, "user_data", JSONstringify(newUser))
    IN  [ls |-> ls3,
         ret |-> [success |-> TRUE, message |-> MsgCreated,
                  user |-> Some(newUser), token |-> Some(TokenFor(newUser.id))]]

\* fallbackSignup past the duplicate check: the account is stored and signed in
createAccount(ls, email, password, phone, name, t) ==
    LET users == ParseList(ls, "fallback_users")
        newUser == [id |-> t, email |-> email, phone |-> phone, name |-> name,
                    created_at |-> toISOString(t)]
        userData == [id |-> t, email |-> email, phone |-> phone, name |-> name,
                     created_at |-> toISOString(t), password |-> password]
        ls1 == setItem(ls, "fallback_users", JSONstringify(Append(users, userData)))
        token == TokenFor(newUser.id)
        ls2 == setItem(ls1, "auth_token", token)
        ls3 == setItem(ls2, "user_data", JSONstringify(newUser))
    IN  [ls |-> ls3,
         ret |-> [success |-> TRUE, message |-> MsgCreated,
                  user |-> Some(newUser), token |-> Some(token)]]

\* faulty variant: the duplicate check left out
fallbackSignup_Unchecked(ls, email, password, phone, name, t) ==
    createAccount(ls, email, password, phone, name, t)

fallbackSignup(ls, email, password, phone, name, t) ==
    LET users == ParseList(ls, "fallback_users")
        same == {i \in DOMAIN users : users[i].email = email}
    IN  IF FirstIndex(same) /= 0
        THEN [ls |-> ls, ret |-> DuplicateAccount]
        ELSE createAccount(ls, email, password, phone, name, t)

\* fallbackSignin once the account is found: the session is stored
openSession(ls, user) ==
    LET userWithoutPassword == WithoutPassword(user)
        token == TokenFor(user.id)
        ls1 == setItem(ls, "auth_token", token)
        ls2 == setItem(ls1, "user_data", JSONstringify(userWithoutPassword))
    IN  [ls |-> ls2,
         ret |-> [success |-> TRUE, message |-> MsgSignedIn,
                  user |-> Some(userWithoutPassword), token |-> Some(token)]]

\* faulty variant: the secret is not compared
fallbackSignin_EmailOnly(ls, email, password) ==
    LET users == ParseList(ls, "fallback_users")
        i == FirstIndex({j \in DOMAIN users : users[j].email = email})
    IN  IF i = 0 THEN [ls |-> ls, ret |-> InvalidCredentials] ELSE openSession(ls, users[i])

\* faulty variant: the email is not compared
fallbackSignin_SecretOnly(ls, email, password) ==
    LET users == ParseList(ls, "fallback_users")
        i == FirstIndex({j \in DOMAIN users : users[j].password = password})
    IN  IF i = 0 THEN [ls |-> ls, ret |-> InvalidCredentials] ELSE openSession(ls, users[i])

\* faulty variant: a refused signin ends the session in place
fallbackSignin_EndsSession(ls, email, password) ==
    LET users == ParseList(ls, "fallback_users")
        i == FirstIndex({j \in DOMAIN users :
                            users[j].email = email /\ users[j].password = password})
    IN  IF i = 0
        THEN [ls |-> removeItem(removeItem(ls, "auth_token"), "user_data"),
              ret |-> InvalidCredentials]
        ELSE openSession(ls, users[i])

fallbackSignin(ls, email, password) ==
    LET users == ParseList(ls, "fallback_users")
        i == FirstIndex({j \in DOMAIN users :
                            users[j].email = email /\ users[j].password = password})
    IN  IF i = 0 THEN [ls |-> ls, ret |-> InvalidCredentials] ELSE openSession(ls, users[i])

\* the record logActivity builds for the current user
NewActivity(user, eventType, details, t, r) ==
    [id |-> <<t, r>>, userId |-> user.id, eventType |-> eventType,
     timestamp |-> toISOString(t), details |-> details]

\* faulty variant: without a current user the list is still read and written back
logActivity_WritesBack(ls, eventType, details, t, r) ==
    LET user == getCurrentUser(ls)
        activities == ParseList(ls, "user_activities")
    IN  setItem(ls, "user_activities",
                JSONstringify(IF user = Null THEN activities
                              ELSE Append(activities,
                                          NewActivity(Get(user), eventType, details, t, r))))

\* faulty variant: the new event is put in front of the stored ones
logActivity_Prepends(ls, eventType, details, t, r) ==
    LET user == getCurrentUser(ls)
    IN  IF user = Null THEN ls
        ELSE LET activities == ParseList(ls, "user_activities")
             IN  setItem(ls, "user_activities",
                         JSONstringify(<<NewActivity(Get(user), eventType, details, t, r)>>
                                       \o activities))

\* logActivity, its effect on the store
logActivity(ls, eventType, details, t, r) ==
    LET user == getCurrentUser(ls)
    IN  IF user = Null THEN ls
        ELSE LET activities == ParseList(ls, "user_activities")
             IN  setItem(ls, "user_activities",
                         JSONstringify(Append(activities,
                                              NewActivity(Get(user), eventType, details, t, r))))

\* faulty variant: the failure is answered with a failure result instead of the fallback
performAPISignup_NoFallback(ls, email, password, phone, name, outcome, data, t) ==
    IF outcome = "ok"
    THEN [ls |-> IF data.success /\ data.token /= Null
                 THEN setItem(setItem(ls, "auth_token", Get(data.token)),
                              "user_data", JSONstringify(Get(data.user)))
                 ELSE ls,
          ret |-> data]
    ELSE [ls |-> ls, ret |-> NoBody]

\* performAPISignup once the fetch is over: a 2xx body is returned as it is, and
\* stored as the session when it carries success and a token; anything else is
\* caught and answered by fallbackSignup
performAPISignup(ls, email, password, phone, name, outcome, data, t) ==
    IF outcome = "ok"
    THEN [ls |-> IF data.success /\ data.token /= Null
                 THEN setItem(setItem(ls, "auth_token", Get(data.token)),
                              "user_data", JSONstringify(Get(data.user)))
                 ELSE ls,
          ret |-> data]
    ELSE fallbackSignup(ls, email, password, phone, name, t)

performAPISignin(ls, email, password, outcome, data) ==
    IF outcome = "ok"
    THEN [ls |-> IF data.success /\ data.token /= Null
                 THEN setItem(setItem(ls, "auth_token", Get(data.token)),
                              "user_data", JSONstringify(Get(data.user)))
                 ELSE ls,
          ret |-> data]
    ELSE fallbackSignin(ls, email, password)

\* performAPISignup / performAPISignin answered 2xx with a body that has success
\* and a token and no user: the session is stored from it, and the caller's
\* logActivity then fails in getCurrentUser, so the call is rejected
Threw == [success |-> FALSE, message |-> "SyntaxError", user |-> Null, token |-> Null]
storePartialSession(ls, data) ==
    IF data.success /\ data.token /= Null
    THEN setItem(setItem(ls, "auth_token", Get(data.token)),
                 "user_data",
                 IF data.user = Null THEN UndefinedText ELSE JSONstringify(Get(data.user)))
    ELSE ls

\* faulty variant: the event is logged whatever the result
signupLog_Always(res, email, phone, name, t, r) ==
    logActivity(res.ls, "signup", [email |-> email, phone |-> phone, name |-> name], t, r)

\* signup and signin after the result is in: a success is logged
signupLog(res, email, phone, name, t, r) ==
    IF res.ret.success
    THEN logActivity(res.ls, "signup", [email |-> email, phone |-> phone, name |-> name], t, r)
    ELSE res.ls

signinLog(res, email, t, r) ==
    IF res.ret.success
    THEN logActivity(res.ls, "signin", [email |-> email], t, r)
    ELSE res.ls

\* signup and signin as the caller sees them, for each way the mode flag and the
\* remote call can go: the result returned and the store left behind
signupFallbackMode(ls, reg, t, r) ==
    LET res == fallbackSignup(ls, reg.email, reg.password, reg.phone, reg.name, t)
    IN  [ls |-> signupLog(res, reg.email, reg.phone, reg.name, t, r), ret |-> res.ret]

signupRemoteMode(ls, reg, outcome, data, t, r) ==
    LET res == performAPISignup(ls, reg.email, reg.password, reg.phone, reg.name,
                                outcome, data, t)
    IN  [ls |-> signupLog(res, reg.email, reg.phone, reg.name, t, r), ret |-> res.ret]

signinFallbackMode(ls, email, password, t, r) ==
    LET res == fallbackSignin(ls, email, password)
    IN  [ls |-> signinLog(res, email, t, r), ret |-> res.ret]

signinRemoteMode(ls, email, password, outcome, data, t, r) ==
    LET res == performAPISignin(ls, email, password, outcome, data)
    IN  [ls |-> signinLog(res, email, t, r), ret |-> res.ret]

\* faulty variant: the cached Account is left behind
logoutClear_TokenOnly(ls) == removeItem(ls, "auth_token")

\* logout, once the remote call (if any) is over
logoutClear(ls) == removeItem(removeItem(ls, "auth_token"), "user_data")

\* savePurchase, the local write
savePurchaseLocal(ls, purchaseData, t) ==
    LET purchases == ParseList(ls, "user_purchases")
        purchaseWithId == [user_id |-> purchaseData.user_id,
                           song_title |-> purchaseData.song_title,
                           artist_name |-> purchaseData.artist_name,
                           category |-> purchaseData.category,
                           video_url |-> purchaseData.video_url,
                           amount |-> purchaseData.amount,
                           id |-> t, purchased_at |-> toISOString(t)]
    IN  setItem(ls, "user_purchases", JSONstringify(Append(purchases, purchaseWithId)))

getUserById(ls, userId) ==
    LET users == ParseList(ls, "fallback_users")
        i == FirstIndex({j \in DOMAIN users : users[j].id = userId})
    IN  IF i = 0 THEN Null ELSE Some(WithoutPassword(users[i]))

TimeOf(a) == DateGetTime(a.timestamp)

\* the activities of getUserReport: the owner's, most recent first
reportActivities(ls, user) ==
    LET Mine(a) == a.userId = user.id
        mine == SelectSeq(ParseList(ls, "user_activities"), Mine)
    IN  SortDescending(mine, [i \in DOMAIN mine |-> TimeOf(mine[i])])

\* faulty variant: the tag is not looked at
CountTag_AnyTag(activities, tag) == Len(activities)

CountTag(activities, tag) ==
    LET HasTag(a) == a.eventType = tag
    IN  Len(SelectSeq(activities, HasTag))

\* userId is optional: absent (Null) or 0 selects the current user
getUserReport(ls, userId) ==
    LET user == IF userId /= Null /\ Get(userId) /= 0
                THEN getUserById(ls, Get(userId))
                ELSE getCurrentUser(ls)
    IN  IF user = Null THEN Null
        ELSE LET u == Get(user)
                 activities == reportActivities(ls, u)
             IN  Some([userId |-> u.id,
                       email |-> u.email,
                       artistName |-> u.name,
                       totalSignIns |-> CountTag(activities, "signin"),
                       songsSelected |-> CountTag(activities, "song_selection"),
                       recordingsCompleted |-> CountTag(activities, "recording_complete"),
                       paymentsCompleted |-> CountTag(activities, "payment"),
                       lastActivity |-> IF Len(activities) > 0
                                        THEN activities[1].timestamp
                                        ELSE u.created_at,
                       activities |-> activities])

\* users.map(getUserReport).filter(Boolean)
getAllUserReports(ls) ==
    LET users == ParseList(ls, "fallback_users")
        mapped == [i \in 1..Len(users) |-> getUserReport(ls, Some(users[i].id))]
        Truthy(x) == x /= Null
        kept == SelectSeq(mapped, Truthy)
    IN  [i \in 1..Len(kept) |-> Get(kept[i])]

TotalOf(report) ==
    report.totalSignIns + report.songsSelected + report.recordingsCompleted
    + report.paymentsCompleted

WithTotal(report) ==
    [userId |-> report.userId, email |-> report.email, artistName |-> report.artistName,
     totalSignIns |-> report.totalSignIns, songsSelected |-> report.songsSelected,
     recordingsCompleted |-> report.recordingsCompleted,
     paymentsCompleted |-> report.paymentsCompleted,
     lastActivity |-> report.lastActivity, activities |-> report.activities,
     totalActivity |-> TotalOf(report)]

getTopUsers(ls, limit) ==
    LET reports == getAllUserReports(ls)
        mapped == [i \in 1..Len(reports) |-> WithTotal(reports[i])]
    IN  Slice0(SortDescending(mapped, [i \in DOMAIN mapped |-> mapped[i].totalActivity]),
               limit)

Quoted(str) == <<"\"">> \o str \o <<"\"">>

CsvHeaders ==
    << <<"U", "s", "e", "r", " ", "I", "D">>,
       <<"E", "m", "a", "i", "l">>,
       <<"A", "r", "t", "i", "s", "t", " ", "N", "a", "m", "e">>,
       <<"S", "i", "g", "n", "-", "i", "n", "s">>,
       <<"S", "o", "n", "g", "s", " ", "S", "e", "l", "e", "c", "t", "e", "d">>,
       <<"R", "e", "c", "o", "r", "d", "i", "n", "g", "s">>,
       <<"P", "a", "y", "m", "e", "n", "t", "s">>,
       <<"L", "a", "s", "t", " ", "A", "c", "t", "i", "v", "i", "t", "y">> >>

\* report.artistName || ""
NameOrEmpty(name) == IF name = Null \/ Get(name) = <<>> THEN <<>> ELSE Get(name)

CsvRow(report) ==
    Join(<< NumberToString(report.userId),
            Quoted(report.email),
            Quoted(NameOrEmpty(report.artistName)),
            NumberToString(report.totalSignIns),
            NumberToString(report.songsSelected),
            NumberToString(report.recordingsCompleted),
            NumberToString(report.paymentsCompleted),
            Quoted(toLocaleString(report.lastActivity)) >>, <<",">>)

exportUserData(ls) ==
    LET reports == getAllUserReports(ls)
        rows == [i \in 1..Len(reports) |-> CsvRow(reports[i])]
    IN  Join(<<Join(CsvHeaders, <<",">>)>> \o rows, <<"\n">>)

----------------------------------------------------------------------------
(* Recording session: KaraokeRecording (components/song-selection.tsx)      *)
(*                                                                          *)
(* session is a record.  Its fields isRecording .. videoLoadError are the   *)
(* component's React state, mediaRecorderRef .. recordedChunksRef its refs  *)
(* (0: null; otherwise the number of the object in streams, recorders or    *)
(* the timer's id), and the rest is what the platform holds for the visit:  *)
(* the capture streams granted so far, the getUserMedia calls not yet       *)
(* answered, the MediaRecorder objects, the running interval timers.  Each  *)
(* handler is an operator from the session before it to the session after. *)

MsgPermissionDefault == "Camera and microphone access is required for recording."
MsgDenied ==
    "Camera and microphone permissions were denied. Please click the camera icon in your browser's address bar and allow access, then try again."
MsgNotFound ==
    "No camera or microphone found. Please connect a camera and microphone and try again."
MsgInUse ==
    "Camera or microphone is already in use by another application. Please close other apps and try again."
MsgTimedOut ==
    "Permission request timed out. Please try again and respond to the permission prompt quickly."
MsgOverconstrained == "Camera settings not supported. Trying with basic settings..."
MsgBasicFailed ==
    "Unable to access camera and microphone. Please check your device settings and try again."
AlertNeedPermission == "Camera and microphone permissions are required"
AlertNotActive == "Camera and microphone are not active. Please refresh and try again."
AlertTooShort == "Please record for at least 1 second before stopping."
AlertNoData ==
    "Recording failed - no data captured. Please ensure your camera and microphone are working and try again."
AlertRecordingFailed ==
    "Recording failed. Please check your camera and microphone permissions and try again."
AlertRecorderError == "Recording error occurred. Please try again."

\* the names getUserMedia rejects with; the last stands for any other name
ErrorNames ==
    {"NotAllowedError", "NotFoundError", "NotReadableError", "OverconstrainedError",
     "AbortError"}

\* what MediaRecorder.isTypeSupported accepts on the platform of a visit unless
\* said otherwise, and the format a recorder made without options reports
PlatformTypes == {"video/webm;codecs=vp9,opus", "video/webm"}
PlatformDefault == "video/x-matroska"

\* the component after its first render and its mount effect: requestPermissions
\* has been called and its getUserMedia call is not answered yet
InitialSession ==
    [mounted |-> TRUE,
     isRecording |-> FALSE, recordedBlob |-> Null, recordingTime |-> 0,
     hasPermission |-> FALSE, permissionError |-> "",
     karaokeVideoPlaying |-> FALSE, videoLoadError |-> FALSE,
     referenceVideo |-> "paused",
     isTypeSupported |-> PlatformTypes,
     mediaRecorderRef |-> 0, streamRef |-> 0, recordingTimerRef |-> 0,
     recordedChunksRef |-> <<>>,
     alert |-> "",
     streams |-> <<>>,
     requests |-> <<[kind |-> "full", timedOut |-> FALSE]>>,
     basicRetries |-> 0,
     recorders |-> <<>>,
     captured |-> 0,
     timers |-> {}, timersMade |-> 0,
     handedOver |-> Null]

\* a React state setter: an update of an unmounted component is dropped
SetState(s, field, value) == IF s.mounted THEN [s EXCEPT ![field] = value] ELSE s

\* window.alert(message)
Alert(s, message) == [s EXCEPT !.alert = message]

\* all tracks of stream id stop or end: a MediaRecorder recording the stream stops
\* by itself and queues its last dataavailable and its stop event
EndStream(s, id) ==
    LET old == s.recorders
    IN  [s EXCEPT !.streams[id] = "ended",
                  !.recorders = [k \in DOMAIN old |->
                                    IF old[k].stream = id /\ old[k].state = "recording"
                                    THEN [old[k] EXCEPT !.state = "stopping"]
                                    ELSE old[k]]]

\* requestPermissions up to its await: the message is cleared and getUserMedia is
\* called with the full constraints, raced against a 10 s timer
requestPermissions(s) ==
    LET s1 == SetState(s, "permissionError", "")
    IN  [s1 EXCEPT !.requests = Append(@, [kind |-> "full", timedOut |-> FALSE])]

\* requestBasicPermissions up to its await: getUserMedia({video: true, audio: true})
requestBasicPermissions(s) ==
    [s EXCEPT !.requests = Append(@, [kind |-> "basic", timedOut |-> FALSE])]

\* the resumption after a grant, the same in both functions: the stream is stored
\* and hasPermission set
storeStream(s, id) == SetState([s EXCEPT !.streamRef = id], "hasPermission", TRUE)

\* the catch block of requestPermissions, for the name of the error caught
\* ("timeout": the error of the 10 s timer)
\* the local errorMessage of the catch block, for the name of the error caught
errorMessage(name) ==
    CASE name = "NotAllowedError" -> MsgDenied
      [] name = "NotFoundError" -> MsgNotFound
      [] name = "NotReadableError" -> MsgInUse
      [] name = "OverconstrainedError" -> MsgOverconstrained
      [] name = "timeout" -> MsgTimedOut
      [] OTHER -> MsgPermissionDefault

permissionFailed(s, name) ==
    IF name = "OverconstrainedError"
    THEN [s EXCEPT !.basicRetries = @ + 1]
    ELSE SetState(s, "permissionError", errorMessage(name))

\* getUserMedia call i is answered with a new stream.  Promise.race has settled
\* already if the 10 s timer fired first: the stream then goes nowhere.
granted(s, i) ==
    LET req == s.requests[i]
        s1 == [s EXCEPT !.requests = RemoveAt(@, i), !.streams = Append(@, "live")]
    IN  IF req.timedOut THEN s1 ELSE storeStream(s1, Len(s1.streams))

\* getUserMedia call i is rejected with an error of the given name
rejected(s, i, name) ==
    LET req == s.requests[i]
        s1 == [s EXCEPT !.requests = RemoveAt(@, i)]
    IN  IF req.timedOut THEN s1
        ELSE IF req.kind = "full" THEN permissionFailed(s1, name)
        ELSE SetState(s1, "permissionError", MsgBasicFailed)

\* the 10 s timer of call i fires before getUserMedia has answered: the race is
\* rejected, and the getUserMedia call stays outstanding
timedOut(s, i) ==
    permissionFailed([s EXCEPT !.requests[i].timedOut = TRUE], "timeout")

\* the timer set on OverconstrainedError fires after 1 s
basicRetryFires(s) == requestBasicPermissions([s EXCEPT !.basicRetries = @ - 1])

\* cleanup, run when the component unmounts
cleanup(s) ==
    LET s1 == IF s.streamRef /= 0 THEN EndStream(s, s.streamRef) ELSE s
    IN  IF s1.recordingTimerRef /= 0
        THEN [s1 EXCEPT !.timers = @ \ {s1.recordingTimerRef}]
        ELSE s1

\* karaokeVideoRef.current.play(): the promise of a video that failed to load is
\* rejected, and the rejection is caught and logged
play(s) ==
    IF s.referenceVideo = "error" THEN s ELSE [s EXCEPT !.referenceVideo = "playing"]

\* karaokeVideoRef.current.pause()
pause(s) ==
    IF s.referenceVideo = "playing" THEN [s EXCEPT !.referenceVideo = "paused"] ELSE s

\* the formats startRecording asks for, in its order of preference
supportedTypes ==
    <<"video/webm;codecs=vp8,opus", "video/webm;codecs=vp9,opus", "video/webm", "video/mp4">>

\* faulty variant: the last supported type is taken
NegotiatedType_Last(types) ==
    LET ok == {k \in DOMAIN supportedTypes : supportedTypes[k] \in types}
    IN  IF ok = {} THEN "" ELSE supportedTypes[CHOOSE k \in ok : \A j \in ok : j <= k]

\* the for loop of startRecording: the first type MediaRecorder.isTypeSupported
\* accepts, "" if there is none
NegotiatedType(types) ==
    LET ok == {k \in DOMAIN supportedTypes : supportedTypes[k] \in types}
    IN  IF ok = {} THEN "" ELSE supportedTypes[FirstIndex(ok)]

\* karaokeVideoRef.current: the reference video is rendered in the recording view
\* unless it failed to load
karaokeVideo(s) == s.hasPermission /\ ~s.videoLoadError

\* faulty variant: the readyState of the tracks is not looked at
startRecording_NoLiveCheck(s) ==
    IF s.streamRef = 0 \/ ~s.hasPermission THEN Alert(s, AlertNeedPermission)
    ELSE LET mediaRecorder == [stream |-> s.streamRef, state |-> "recording",
                               mimeType |-> IF NegotiatedType(s.isTypeSupported) /= ""
                                            THEN NegotiatedType(s.isTypeSupported)
                                            ELSE PlatformDefault]
             s1 == [s EXCEPT !.recordedChunksRef = <<>>,
                             !.recorders = Append(@, mediaRecorder)]
             s2 == [s1 EXCEPT !.mediaRecorderRef = Len(s1.recorders)]
             s3 == SetState(SetState(s2, "isRecording", TRUE), "recordingTime", 0)
             s4 == IF karaokeVideo(s3)
                   THEN SetState(play(s3), "karaokeVideoPlaying", TRUE)
                   ELSE s3
             timer == s4.timersMade + 1
         IN  [s4 EXCEPT !.timersMade = timer,
                        !.timers = @ \cup {timer},
                        !.recordingTimerRef = timer]

\* faulty variant: a reference video that cannot play aborts the start
startRecording_NeedsVideo(s) ==
    IF s.streamRef = 0 \/ ~s.hasPermission THEN Alert(s, AlertNeedPermission)
    ELSE IF s.streams[s.streamRef] /= "live" THEN Alert(s, AlertNotActive)
    ELSE IF s.referenceVideo = "error" THEN Alert(s, AlertRecordingFailed)
    ELSE startRecording_NoLiveCheck(s)

\* startRecording
startRecording(s) ==
    IF s.streamRef = 0 \/ ~s.hasPermission THEN Alert(s, AlertNeedPermission)
    ELSE IF s.streams[s.streamRef] /= "live" THEN Alert(s, AlertNotActive)
    ELSE LET mimeType == NegotiatedType(s.isTypeSupported)
             mediaRecorder == [stream |-> s.streamRef, state |-> "recording",
                               mimeType |-> IF mimeType /= "" THEN mimeType
                                            ELSE PlatformDefault]
             s1 == [s EXCEPT !.recordedChunksRef = <<>>,
                             !.recorders = Append(@, mediaRecorder)]
             s2 == [s1 EXCEPT !.mediaRecorderRef = Len(s1.recorders)]
             s3 == SetState(SetState(s2, "isRecording", TRUE), "recordingTime", 0)
             s4 == IF karaokeVideo(s3)
                   THEN SetState(play(s3), "karaokeVideoPlaying", TRUE)
                   ELSE s3
             timer == s4.timersMade + 1
         IN  [s4 EXCEPT !.timersMade = timer,
                        !.timers = @ \cup {timer},
                        !.recordingTimerRef = timer]

\* mediaRecorder.ondataavailable: a chunk with data is kept.  A chunk is its
\* number in capture order and its size.
ondataavailable(s, size) ==
    IF size > 0
    THEN [s EXCEPT !.captured = @ + 1,
                   !.recordedChunksRef = Append(@, [n |-> s.captured + 1, size |-> size])]
    ELSE s

\* blob.size of new Blob(chunks)
RECURSIVE BlobSize(_)
BlobSize(chunks) ==
    IF chunks = <<>> THEN 0 ELSE Head(chunks).size + BlobSize(Tail(chunks))

\* faulty variant: the blob is stored whatever its size
onstop_StoresEmpty(s, k) ==
    LET finalMimeType == IF s.recorders[k].mimeType /= "" THEN s.recorders[k].mimeType
                         ELSE "video/webm"
    IN  SetState(s, "recordedBlob",
                 Some([parts |-> s.recordedChunksRef, type |-> finalMimeType]))

\* mediaRecorder.onstop of recorder k
onstop(s, k) ==
    LET finalMimeType == IF s.recorders[k].mimeType /= "" THEN s.recorders[k].mimeType
                         ELSE "video/webm"
        blob == [parts |-> s.recordedChunksRef, type |-> finalMimeType]
    IN  IF BlobSize(blob.parts) > 0 THEN SetState(s, "recordedBlob", Some(blob))
        ELSE Alert(s, AlertNoData)

\* mediaRecorder.onerror
onerror(s) == SetState(Alert(s, AlertRecorderError), "isRecording", FALSE)

\* MediaRecorder.stop(): a recording recorder queues its last dataavailable and
\* its stop event; on any other recorder the call does nothing
RecorderStop(s, k) ==
    IF s.recorders[k].state = "recording"
    THEN [s EXCEPT !.recorders[k].state = "stopping"]
    ELSE s

\* faulty variant: the stop is carried out however short the recording
stopRecording_Unguarded(s) ==
    IF s.mediaRecorderRef /= 0 /\ s.isRecording
    THEN LET s1 == RecorderStop(s, s.mediaRecorderRef)
             s2 == SetState(s1, "isRecording", FALSE)
             s3 == IF karaokeVideo(s2)
                   THEN SetState(pause(s2), "karaokeVideoPlaying", FALSE)
                   ELSE s2
         IN  IF s3.recordingTimerRef /= 0
             THEN [s3 EXCEPT !.timers = @ \ {s3.recordingTimerRef},
                             !.recordingTimerRef = 0]
             ELSE s3
    ELSE s

\* stopRecording
stopRecording(s) ==
    IF s.mediaRecorderRef /= 0 /\ s.isRecording
    THEN IF s.recordingTime < 1 THEN Alert(s, AlertTooShort)
         ELSE LET s1 == RecorderStop(s, s.mediaRecorderRef)
                  s2 == SetState(s1, "isRecording", FALSE)
                  s3 == IF karaokeVideo(s2)
                        THEN SetState(pause(s2), "karaokeVideoPlaying", FALSE)
                        ELSE s2
              IN  IF s3.recordingTimerRef /= 0
                  THEN [s3 EXCEPT !.timers = @ \ {s3.recordingTimerRef},
                                  !.recordingTimerRef = 0]
                  ELSE s3
    ELSE s

\* restartRecording
restartRecording(s) ==
    LET s1 == stopRecording(s)
        s2 == SetState(SetState(s1, "recordedBlob", Null), "recordingTime", 0)
    IN  IF karaokeVideo(s2) THEN SetState(pause(s2), "karaokeVideoPlaying", FALSE)
        ELSE s2

\* the callback of the interval timer: setRecordingTime((prev) => prev + 1)
tick(s) == SetState(s, "recordingTime", s.recordingTime + 1)

\* the parent unmounts the component: the effect's cleanup runs
unmount(s) == [cleanup(s) EXCEPT !.mounted = FALSE]

\* proceedToDownload: onNext(videoUrl) hands the artifact over and the parent
\* leaves the recording screen
proceedToDownload(s) ==
    IF s.recordedBlob /= Null
    THEN unmount([s EXCEPT !.handedOver = s.recordedBlob])
    ELSE s

----------------------------------------------------------------------------
(* State machine *)

\* a completed call: the operation first, so that two calls are told apart by it
\* before their arguments and results are compared
Returned(op, args, ret) == <<op, args, ret>>
Op(call) == call[1]
Args(call) == call[2]
Ret(call) == call[3]

NoCall == Returned("none", Null, Null)

Init ==
    /\ localStorage = [k \in Keys |-> Null]
    /\ now = 1
    /\ useFallback = USE_FALLBACK
    /\ pending = <<>>
    /\ last = NoCall
    /\ created = {}
    /\ loggedBy = <<>>
    /\ session = InitialSession

NumUsers(ls) == Len(ParseList(ls, "fallback_users"))
NumActs(ls) == Len(ParseList(ls, "user_activities"))
NumPurchases(ls) == Len(ParseList(ls, "user_purchases"))

\* the history of owners after a handler took the store from ls to ls2
LoggedAfter(ls, ls2) ==
    IF NumActs(ls2) > NumActs(ls)
    THEN Append(loggedBy, Get(getCurrentUser(ls2)).email)
    ELSE loggedBy

\* the clock advances between handlers
Tick ==
    /\ now < MaxClock
    /\ now' = now + 1
    /\ UNCHANGED <<session, localStorage, useFallback, pending, last, created, loggedBy>>

\* what the bounds allow a handler to leave behind
\* (in remote mode a session can be anybody's, so the same lists come in many more
\* variants: they are explored one element shorter)
Cap(n) == IF useFallback THEN n ELSE n - 1
\* (purchases do not depend on accounts: longer purchase lists and more calls in
\* flight are explored while the store holds nothing but purchases)
Alone(ls) == \A k \in Keys \ {"user_purchases"} : getItem(ls, k) = Null
PurchaseCap(ls) == IF Alone(ls) THEN MaxPurchasesAlone ELSE MaxPurchases
PendingCap(ls) == IF Alone(ls) THEN MaxPendingAlone ELSE MaxPending
Bounded(ls) ==
    /\ NumUsers(ls) <= Cap(MaxUsers)
    /\ NumActs(ls) <= Cap(MaxActs)
    /\ NumPurchases(ls) <= PurchaseCap(ls)
    /\ Len(pending) <= PendingCap(ls)

\* the history of accounts created by signup: the secret given and the Account returned
CreatedAfter(ls, ls2, ret, email, password) ==
    IF ret.success /\ NumUsers(ls2) > NumUsers(ls)
    THEN created \cup {[email |-> email, password |-> password, id |-> Get(ret.user).id]}
    ELSE created

\* signup with USE_FALLBACK set: no suspension, the handler runs to its end
SignupWith(reg, r) ==
    LET res == signupFallbackMode(localStorage, reg, now, r)
        ls2 == res.ls
    IN  /\ useFallback
        /\ Bounded(ls2)
        /\ localStorage' = ls2
        /\ last' = Returned("signup", reg, res.ret)
        /\ created' = CreatedAfter(localStorage, ls2, res.ret, reg.email, reg.password)
        /\ loggedBy' = LoggedAfter(localStorage, ls2)
        /\ UNCHANGED <<session, now, useFallback, pending>>

Signup == \E reg \in Registrations, r \in RandomSuffixes : SignupWith(reg, r)

SigninWith(email, password, r) ==
    LET res == signinFallbackMode(localStorage, email, password, now, r)
        ls2 == res.ls
    IN  /\ useFallback
        /\ Bounded(ls2)
        /\ localStorage' = ls2
        /\ last' = Returned("signin", [email |-> email, password |-> password], res.ret)
        /\ loggedBy' = LoggedAfter(localStorage, ls2)
        /\ UNCHANGED <<session, now, useFallback, pending, created>>

Signin ==
    \E email \in Emails, password \in Passwords, r \in RandomSuffixes :
        SigninWith(email, password, r)

Logout ==
    /\ useFallback
    /\ localStorage' = logoutClear(localStorage)
    /\ last' = Returned("logout", Null, Null)
    /\ UNCHANGED <<session, now, useFallback, pending, created, loggedBy>>

LogWith(op, eventType, details, r) ==
    LET ls2 == logActivity(localStorage, eventType, details, now, r)
    IN  /\ Bounded(ls2)
        /\ localStorage' = ls2
        /\ last' = Returned(op, details, Null)
        /\ loggedBy' = LoggedAfter(localStorage, ls2)
        /\ UNCHANGED <<session, now, useFallback, pending, created>>

LogSongSelection ==
    \E songTitle \in SongTitles, category \in Categories, r \in RandomSuffixes :
        LogWith("logSongSelection", "song_selection",
                [songTitle |-> songTitle, category |-> category], r)

LogRecordingComplete ==
    \E songTitle \in SongTitles, category \in Categories, r \in RandomSuffixes :
        LogWith("logRecordingComplete", "recording_complete",
                [songTitle |-> songTitle, category |-> category], r)

LogPayment ==
    \E songTitle \in SongTitles, category \in Categories, amount \in Amounts,
       r \in RandomSuffixes :
        LogWith("logPayment", "payment",
                [songTitle |-> songTitle, category |-> category, paymentAmount |-> amount], r)

MsgSaved == "Purchase saved successfully!"
MsgSavedLocally == "Purchase saved locally (API unavailable)."

SavePurchase ==
    /\ useFallback
    /\ \E purchaseData \in PurchaseInputs :
         LET ls2 == savePurchaseLocal(localStorage, purchaseData, now)
         IN  /\ Bounded(ls2)
             /\ localStorage' = ls2
             /\ last' = Returned("savePurchase", purchaseData,
                                 [success |-> TRUE, message |-> MsgSaved])
    /\ UNCHANGED <<session, now, useFallback, pending, created, loggedBy>>

(* Read-only operations *)

Query(op, args, ret) ==
    /\ last' = Returned(op, args, ret)
    /\ UNCHANGED <<session, localStorage, now, useFallback, pending, created, loggedBy>>

UserIdArgs == {Null} \cup {Some(i) : i \in 0..MaxClock}

GetCurrentUser == Query("getCurrentUser", Null, getCurrentUser(localStorage))

IsAuthenticated == Query("isAuthenticated", Null, isAuthenticated(localStorage))

GetUserReport == \E userId \in UserIdArgs :
    Query("getUserReport", userId, getUserReport(localStorage, userId))

GetAllUserReports == Query("getAllUserReports", Null, getAllUserReports(localStorage))

GetTopUsers == \E limit \in 0..MaxLimit :
    Query("getTopUsers", limit, getTopUsers(localStorage, limit))

ExportUserData == Query("exportUserData", Null, exportUserData(localStorage))

(* Remote mode.  A handler that awaits fetch is suspended until the call settles, *)
(* and other handlers run meanwhile.  signup, signin and logout touch the store   *)
(* only after the await and use nothing read before it, so each is one step taken *)
(* when its call settles, whatever ran during the suspension having gone before.  *)
(* savePurchase writes before the await: it is two steps.                         *)

SignupRemoteWith(reg, outcome, data, r) ==
    LET res == signupRemoteMode(localStorage, reg, outcome, data, now, r)
        ls2 == res.ls
    IN  /\ ~useFallback
        /\ Bounded(ls2)
        /\ localStorage' = ls2
        /\ last' = Returned("signup", reg, res.ret)
        /\ created' = CreatedAfter(localStorage, ls2, res.ret, reg.email, reg.password)
        /\ loggedBy' = LoggedAfter(localStorage, ls2)
        /\ UNCHANGED <<session, now, useFallback, pending>>

SignupRemote ==
    \E reg \in Registrations, r \in RandomSuffixes :
        \E reply \in Replies(RemoteAuthBodies(reg.email)) :
            SignupRemoteWith(reg, reply.outcome, reply.data, r)

SigninRemoteWith(email, password, outcome, data, r) ==
    LET res == signinRemoteMode(localStorage, email, password, outcome, data, now, r)
        ls2 == res.ls
    IN  /\ ~useFallback
        /\ Bounded(ls2)
        /\ localStorage' = ls2
        /\ last' = Returned("signin", [email |-> email, password |-> password], res.ret)
        /\ loggedBy' = LoggedAfter(localStorage, ls2)
        /\ UNCHANGED <<session, now, useFallback, pending, created>>

SigninRemote ==
    \E email \in Emails, password \in Passwords, r \in RandomSuffixes :
        \E reply \in Replies(RemoteAuthBodies(email)) :
            SigninRemoteWith(email, password, reply.outcome, reply.data, r)

\* the response is not looked at, and a rejection is caught
LogoutRemoteWith(outcome) ==
    /\ ~useFallback
    /\ localStorage' = logoutClear(localStorage)
    /\ last' = Returned("logout", Null, Null)
    /\ UNCHANGED <<session, now, useFallback, pending, created, loggedBy>>

LogoutRemote == \E outcome \in RemoteFailures \cup {"ok"} : LogoutRemoteWith(outcome)

\* savePurchase in remote mode: the local write, then the fetch
SavePurchaseRequest ==
    /\ ~useFallback
    /\ Len(pending) < PendingCap(localStorage)
    /\ \E purchaseData \in PurchaseInputs :
         LET ls2 == savePurchaseLocal(localStorage, purchaseData, now)
         IN  /\ Bounded(ls2)
             /\ localStorage' = ls2
             /\ pending' = Append(pending, purchaseData)
    /\ UNCHANGED <<session, now, useFallback, last, created, loggedBy>>

\* faulty variant: the failure of the remote call is passed on to the caller
savePurchaseResult_Rejects(outcome, data) ==
    IF outcome = "ok" THEN data ELSE [success |-> FALSE, message |-> "HTTP error!"]

savePurchaseResult(outcome, data) ==
    IF outcome = "ok" THEN data ELSE [success |-> TRUE, message |-> MsgSavedLocally]

SavePurchaseSettleWith(i, outcome, data) ==
    /\ pending' = RemoveAt(pending, i)
    /\ last' = Returned("savePurchase", pending[i], savePurchaseResult(outcome, data))
    /\ UNCHANGED <<session, localStorage, now, useFallback, created, loggedBy>>

SavePurchaseSettle ==
    \E i \in DOMAIN pending, reply \in Replies(RemotePurchaseBodies) :
        SavePurchaseSettleWith(i, reply.outcome, reply.data)

\* signup and signin in remote mode, answered with a body without user
AuthRemotePartialWith(op, args, data) ==
    /\ ~useFallback
    /\ localStorage' = storePartialSession(localStorage, data)
    /\ last' = Returned(op, args, Threw)
    /\ UNCHANGED <<session, now, useFallback, pending, created, loggedBy>>

SignupRemotePartial ==
    \E reg \in Registrations, data \in RemotePartialBodies :
        AuthRemotePartialWith("signup", reg, data)

SigninRemotePartial ==
    \E email \in Emails, password \in Passwords, data \in RemotePartialBodies :
        AuthRemotePartialWith("signin", [email |-> email, password |-> password], data)

LocalNext ==
    \/ Tick
    \/ Signup \/ Signin \/ Logout \/ SavePurchase
    \/ LogSongSelection \/ LogRecordingComplete \/ LogPayment
    \/ GetCurrentUser \/ IsAuthenticated

ReportNext ==
    \/ Tick
    \/ Signup \/ Signin \/ Logout
    \/ LogSongSelection \/ LogRecordingComplete \/ LogPayment
    \/ GetUserReport \/ GetAllUserReports \/ GetTopUsers \/ ExportUserData

\* the reporting operations over the stores the client builds
SpecReports == Init /\ [][ReportNext]_vars

RemoteNext ==
    \/ SignupRemote \/ SigninRemote \/ LogoutRemote
    \/ SavePurchaseRequest \/ SavePurchaseSettle

\* the build as shipped: USE_FALLBACK is true
Next == LocalNext

Spec == Init /\ [][Next]_vars

\* either build: USE_FALLBACK true or false
InitModes ==
    /\ localStorage = [k \in Keys |-> Null]
    /\ now = 1
    /\ useFallback \in BOOLEAN
    /\ pending = <<>>
    /\ last = NoCall
    /\ created = {}
    /\ loggedBy = <<>>
    /\ session = InitialSession

NextModes == LocalNext \/ RemoteNext

SpecModes == InitModes /\ [][NextModes]_vars

----------------------------------------------------------------------------
(* Recording session: the events of one visit of the recording screen.  The  *)
(* buttons are those the render offers in the state at hand.                 *)

\* what the bounds allow a session to hold
\* (recordings are explored in the sessions where no getUserMedia call and no
\* retry timer is outstanding)
SessionBounded(s) ==
    /\ s.recorders /= <<>> => s.requests = <<>> /\ s.basicRetries = 0
    /\ Len(s.requests) <= MaxRequests
    /\ Len(s.streams) <= MaxStreams
    /\ Len(s.recorders) <= MaxRecorders
    /\ s.basicRetries <= MaxBasicRetries
    /\ s.captured <= MaxChunks
    /\ s.recordingTime <= MaxRecordingTime

SessionStep(s2) ==
    /\ SessionBounded(s2)
    /\ session' = s2
    /\ UNCHANGED apiVars

\* "Grant Permissions" / "Try Again"
RequestPermissions ==
    /\ session.mounted /\ ~session.hasPermission
    /\ SessionStep(requestPermissions(session))

\* "Try Basic Settings"
RequestBasicPermissions ==
    /\ session.mounted /\ ~session.hasPermission /\ session.permissionError /= ""
    /\ SessionStep(requestBasicPermissions(session))

BasicRetryFires ==
    /\ session.basicRetries > 0
    /\ SessionStep(basicRetryFires(session))

Granted == \E i \in DOMAIN session.requests : SessionStep(granted(session, i))

Rejected ==
    \E i \in DOMAIN session.requests, name \in ErrorNames :
        SessionStep(rejected(session, i, name))

TimedOut ==
    \E i \in DOMAIN session.requests :
        /\ session.requests[i].kind = "full"
        /\ ~session.requests[i].timedOut
        /\ SessionStep(timedOut(session, i))

\* a device is unplugged or taken away: the tracks of a stream end
TrackEnded ==
    \E id \in DOMAIN session.streams :
        /\ session.streams[id] = "live"
        /\ SessionStep(EndStream(session, id))

\* the reference video fails to load: its error event.  The listeners of the
\* mount effect were never attached (the element is not rendered at mount), so
\* only the element changes.
VideoError ==
    /\ session.mounted /\ session.hasPermission
    /\ session.referenceVideo /= "error"
    /\ SessionStep([session EXCEPT !.referenceVideo = "error"])

\* "Start Recording"
StartRecording ==
    /\ session.mounted /\ session.hasPermission
    /\ ~session.isRecording /\ session.recordedBlob = Null
    /\ SessionStep(startRecording(session))

\* the recorder's timeslice of 1 s is over: dataavailable
DataAvailable ==
    \E k \in DOMAIN session.recorders, size \in {0, 1} :
        /\ session.recorders[k].state = "recording"
        /\ SessionStep(ondataavailable(session, size))

\* a stopping recorder delivers its last dataavailable and then its stop event
RecorderStopped ==
    \E k \in DOMAIN session.recorders, size \in {0, 1} :
        /\ session.recorders[k].state = "stopping"
        /\ SessionStep(onstop(ondataavailable(
                                 [session EXCEPT !.recorders[k].state = "inactive"], size),
                              k))

\* a recording recorder fails: its error event, and it stops
RecorderError ==
    \E k \in DOMAIN session.recorders :
        /\ session.recorders[k].state = "recording"
        /\ SessionStep(onerror([session EXCEPT !.recorders[k].state = "stopping"]))

\* "Stop Recording"
StopRecording ==
    /\ session.mounted /\ session.hasPermission /\ session.isRecording
    /\ SessionStep(stopRecording(session))

\* "Restart" while recording, "Record Again" after it
RestartRecording ==
    /\ session.mounted /\ session.hasPermission
    /\ session.isRecording \/ session.recordedBlob /= Null
    /\ SessionStep(restartRecording(session))

\* a running interval timer fires
TimerTick ==
    /\ session.timers /= {}
    /\ SessionStep(tick(session))

\* "Continue to Download"
ProceedToDownload ==
    /\ session.mounted /\ session.hasPermission
    /\ session.recordedBlob /= Null /\ ~session.isRecording
    /\ SessionStep(proceedToDownload(session))

\* "Go Back" / "Back"
GoBack ==
    /\ session.mounted
    /\ SessionStep(unmount(session))

RecordingNext ==
    \/ RequestPermissions \/ RequestBasicPermissions \/ BasicRetryFires
    \/ Granted \/ Rejected \/ TimedOut \/ TrackEnded \/ VideoError
    \/ StartRecording \/ DataAvailable \/ RecorderStopped \/ RecorderError
    \/ StopRecording \/ RestartRecording \/ TimerTick
    \/ ProceedToDownload \/ GoBack

\* one visit of the recording screen
SpecRecording == Init /\ [][RecordingNext]_vars

\* the platform delivers the events a stopping recorder has queued
SpecRecordingFair == SpecRecording /\ WF_vars(RecorderStopped)

\* the platform fires the timers the component has set: the 10 s timer raced
\* against getUserMedia and the 1 s timer of the automatic retry.  Prompts are
\* answered when the user answers them, if ever.
SpecPermissionFair ==
    SpecRecording /\ WF_vars(TimedOut) /\ WF_vars(BasicRetryFires)

\* signup, signin and logout in either mode, for every body the remote API can
\* answer with
SessionNext ==
    \/ Tick
    \/ Signup \/ Signin \/ Logout
    \/ SignupRemote \/ SigninRemote \/ LogoutRemote
    \/ SignupRemotePartial \/ SigninRemotePartial

SpecSessions == InitModes /\ [][SessionNext]_vars

\* the platforms a visit can run on: any part of the preference list supported
Platforms == SUBSET Range(supportedTypes)

InitFormats ==
    /\ localStorage = [k \in Keys |-> Null]
    /\ now = 1
    /\ useFallback = USE_FALLBACK
    /\ pending = <<>>
    /\ last = NoCall
    /\ created = {}
    /\ loggedBy = <<>>
    /\ session \in {[InitialSession EXCEPT !.isTypeSupported = types] : types \in Platforms}

FormatNext ==
    \/ Granted \/ StartRecording \/ DataAvailable \/ TimerTick
    \/ StopRecording \/ RecorderStopped \/ RestartRecording \/ ProceedToDownload

\* recordings made and stopped, on each platform
SpecFormats == InitFormats /\ [][FormatNext]_vars

----------------------------------------------------------------------------
(* Properties *)

Users == ParseList(localStorage, "fallback_users")
Activities == ParseList(localStorage, "user_activities")
Purchases == ParseList(localStorage, "user_purchases")

HasAccount(ls, email) == \E u \in Range(ParseList(ls, "fallback_users")) : u.email = email

\* C1: signup with an email that already belongs to an Account of the account list
\* returns the duplicate-account failure and changes no key of the store.
C1_DuplicateSignupRejected ==
    [][Op(last') = "signup"
       => \A r \in RandomSuffixes :
             (SignupWith(Args(last'), r) /\ HasAccount(localStorage, Args(last').email))
             => /\ Ret(last') = DuplicateAccount
                /\ localStorage' = localStorage]_vars

\* a duplicate signup was refused for an email registered under another secret,
\* with a session, a log and a purchase in the store
C1_Witness ==
    /\ Op(last) = "signup"
    /\ Ret(last) = DuplicateAccount
    /\ \E u \in Range(Users) : u.email = Args(last).email /\ u.password /= Args(last).password
    /\ isAuthenticated(localStorage)
    /\ Len(Activities) > 0
    /\ Len(Purchases) > 0

\* C2: signin succeeds exactly when some Account of the account list has the given
\* email and the given secret; otherwise it returns the invalid-credentials failure.
C2_SigninIffCredentialsMatch ==
    [][Op(last') = "signin"
       => \A r \in RandomSuffixes :
             SigninWith(Args(last').email, Args(last').password, r)
             => LET matches == \E u \in Range(Users) :
                                   /\ u.email = Args(last').email
                                   /\ u.password = Args(last').password
                IN  /\ Ret(last').success <=> matches
                    /\ ~matches => Ret(last') = InvalidCredentials]_vars

\* signin was refused for a registered email given with the wrong secret
C2_Witness ==
    /\ Op(last) = "signin"
    /\ Ret(last) = InvalidCredentials
    /\ \E u \in Range(Users) : u.email = Args(last).email /\ u.password /= Args(last).password

\* C3: once signup(e, S) has succeeded, whatever was done since, signin(e, S)
\* succeeds and returns the Account with the identifier signup returned, and
\* signin(e, S') fails for every other secret S'.
C3_SigninAfterSignup ==
    [][Op(last') = "signin"
       => \A r \in RandomSuffixes :
             SigninWith(Args(last').email, Args(last').password, r)
             => \A c \in created :
                   c.email = Args(last').email
                   => IF Args(last').password = c.password
                      THEN Ret(last').success /\ Get(Ret(last').user).id = c.id
                      ELSE ~Ret(last').success]_vars

\* the first account signs in again after a second account was created and a
\* purchase saved
C3_Witness ==
    /\ Op(last) = "signin"
    /\ Ret(last).success
    /\ Len(Users) = 2
    /\ Users[1].email = Args(last).email
    /\ \E c \in created : c.email = Args(last).email /\ c.id = Get(Ret(last).user).id
    /\ Len(Purchases) > 0

\* C4: in remote mode, when the remote call of signup or signin times out, fails in
\* transport or answers with a non-success status, the call returns the result and
\* leaves the store that the fallback-mode call gives from the same store.
C4_RemoteFailureIsFallback ==
    ~useFallback
    => \A outcome \in RemoteFailures, r \in RandomSuffixes :
          /\ \A reg \in Registrations :
                signupRemoteMode(localStorage, reg, outcome, NoBody, now, r)
                = signupFallbackMode(localStorage, reg, now, r)
          /\ \A email \in Emails, password \in Passwords :
                signinRemoteMode(localStorage, email, password, outcome, NoBody, now, r)
                = signinFallbackMode(localStorage, email, password, now, r)

\* in remote mode an account was created locally: the remote call had failed
C4_Witness ==
    /\ ~useFallback
    /\ Op(last) = "signup"
    /\ Ret(last).success
    /\ Ret(last).message = MsgCreated
    /\ \E u \in Range(Users) : u.email = Args(last).email
    /\ Len(Activities) > 0

\* C5: after logout, in either mode and however the remote invalidation ended, no
\* session token and no cached Account are stored, and the account list, the
\* activity log and the purchase list are as before.
C5_LogoutClearsSession ==
    [][(Logout \/ LogoutRemote)
       => /\ ~isAuthenticated(localStorage')
          /\ getCurrentUser(localStorage') = Null
          /\ \A k \in {"fallback_users", "user_activities", "user_purchases"} :
                getItem(localStorage', k) = getItem(localStorage, k)]_vars

\* a logout in remote mode, with accounts, activities and purchases in the store
C5_Witness ==
    /\ ~useFallback
    /\ Op(last) = "logout"
    /\ ~isAuthenticated(localStorage)
    /\ Len(Users) > 0
    /\ Len(Activities) > 0
    /\ Len(Purchases) > 0

\* the number of activity events logged while the account with this email was current
LoggedFor(email) == Cardinality({k \in DOMAIN loggedBy : loggedBy[k] = email})

\* the last call was getUserReport for the identifier of the i-th account
ReportedFor(i) ==
    /\ Op(last) = "getUserReport"
    /\ Args(last) = Some(Users[i].id)

\* C6: getUserReport(A) returns exactly the N activity events that were logged for
\* account A, and no event of another account.
C6_ReportHasOwnEvents ==
    \A i \in DOMAIN Users :
        ReportedFor(i)
        => /\ Ret(last) /= Null
           /\ Get(Ret(last)).email = Users[i].email
           /\ Len(Get(Ret(last)).activities) = LoggedFor(Users[i].email)

TallySum(report) ==
    report.totalSignIns + report.songsSelected + report.recordingsCompleted
    + report.paymentsCompleted

C8_StrictlyDescending ==
    (Op(last) = "getUserReport" /\ Ret(last) /= Null)
    => LET acts == Get(Ret(last)).activities
       IN  \A i \in 1..(Len(acts) - 1) : TimeOf(acts[i]) > TimeOf(acts[i + 1])

\* C8 (as the code has it): each entry of a report's activity list has a timestamp
\* greater than or equal to that of the entry after it.
C8_Descending ==
    (Op(last) = "getUserReport" /\ Ret(last) /= Null)
    => LET acts == Get(Ret(last)).activities
       IN  \A i \in 1..(Len(acts) - 1) : TimeOf(acts[i]) >= TimeOf(acts[i + 1])

\* a report whose list had to be reordered and holds two entries of one clock tick
C8_Witness ==
    /\ Op(last) = "getUserReport"
    /\ Ret(last) /= Null
    /\ LET acts == Get(Ret(last)).activities
       IN  /\ Len(acts) = 3
           /\ TimeOf(acts[1]) = TimeOf(acts[2])
           /\ TimeOf(acts[2]) > TimeOf(acts[3])

WithoutTotal(r) ==
    [userId |-> r.userId, email |-> r.email, artistName |-> r.artistName,
     totalSignIns |-> r.totalSignIns, songsSelected |-> r.songsSelected,
     recordingsCompleted |-> r.recordingsCompleted,
     paymentsCompleted |-> r.paymentsCompleted,
     lastActivity |-> r.lastActivity, activities |-> r.activities]

\* report i goes before report j in the stable descending order of totals
Before(all, i, j) ==
    \/ TallySum(all[i]) > TallySum(all[j])
    \/ TallySum(all[i]) = TallySum(all[j]) /\ i < j

\* C9: getTopUsers(k) returns the first k reports (all of them if there are fewer)
\* of getAllUserReports() ordered by total tally, greatest first, reports of equal
\* total in account-list order.
C9_TopUsers ==
    Op(last) = "getTopUsers"
    => LET k == Args(last)
           top == Ret(last)
           all == getAllUserReports(localStorage)
       IN  /\ Len(top) <= k
           /\ Len(top) = IF k < Len(all) THEN k ELSE Len(all)
           /\ \A p \in 1..(Len(top) - 1) : TallySum(top[p]) >= TallySum(top[p + 1])
           /\ \E f \in [DOMAIN top -> DOMAIN all] :
                 /\ \A p \in DOMAIN top : WithoutTotal(top[p]) = all[f[p]]
                 /\ \A p, q \in DOMAIN top : p < q => Before(all, f[p], f[q])
                 /\ \A p \in DOMAIN top :
                       \A j \in DOMAIN all \ {f[q] : q \in DOMAIN top} : Before(all, f[p], j)

\* getTopUsers(1) over two accounts returned the second account, the more active
C9_Witness ==
    /\ Op(last) = "getTopUsers"
    /\ Args(last) = 1
    /\ Len(Users) = 2
    /\ Len(Ret(last)) = 1
    /\ Ret(last)[1].userId = Users[2].id
    /\ Users[2].id /= Users[1].id

\* the lines of a text: the pieces between its line breaks
NumLines(text) == 1 + Cardinality({i \in DOMAIN text : text[i] = "\n"})

\* C10: the export has exactly 1 + (number of Accounts) lines, whatever characters
\* the emails and display names contain.
C10_OneLinePerAccount ==
    Op(last) = "exportUserData" => NumLines(Ret(last)) = 1 + Len(Users)

\* the record savePurchase stores for purchaseData is purchaseData with an id
\* and a purchase time added
StoredFor(record, purchaseData) ==
    /\ DOMAIN record = DOMAIN purchaseData \cup {"id", "purchased_at"}
    /\ \A f \in DOMAIN purchaseData : record[f] = purchaseData[f]

\* C11: savePurchase, in either mode, appends exactly one record for the purchase
\* to the local purchase list, before the remote call is issued; the settling of
\* the remote call leaves the list as it is, whatever the outcome, and a failed
\* or timed-out remote call is answered with success = true.
C11_PurchaseKeptLocally ==
    [][/\ SavePurchase
          => /\ Len(ParseList(localStorage', "user_purchases")) = Len(Purchases) + 1
             /\ SubSeq(ParseList(localStorage', "user_purchases"), 1, Len(Purchases))
                = Purchases
             /\ StoredFor(ParseList(localStorage', "user_purchases")[Len(Purchases) + 1],
                          Args(last'))
             /\ Ret(last').success
       /\ SavePurchaseRequest
          => /\ Len(ParseList(localStorage', "user_purchases")) = Len(Purchases) + 1
             /\ SubSeq(ParseList(localStorage', "user_purchases"), 1, Len(Purchases))
                = Purchases
             /\ StoredFor(ParseList(localStorage', "user_purchases")[Len(Purchases) + 1],
                          pending'[Len(pending')])
       /\ SavePurchaseSettle => localStorage' = localStorage
       /\ \A i \in DOMAIN pending, outcome \in RemoteFailures :
             SavePurchaseSettleWith(i, outcome, NoBody)
             => /\ Ret(last').success
                /\ \E k \in DOMAIN Purchases : StoredFor(Purchases[k], Args(last'))]_vars

\* in remote mode a savePurchase whose remote call failed has returned, its record
\* is in a list of two, and another savePurchase is still in flight
C11_Witness ==
    /\ ~useFallback
    /\ Op(last) = "savePurchase"
    /\ Ret(last) = [success |-> TRUE, message |-> MsgSavedLocally]
    /\ Len(Purchases) = 2
    /\ Len(pending) = 1

\* the tag each of the three logging methods gives its events
TagOf(op) ==
    CASE op = "logSongSelection" -> "song_selection"
      [] op = "logRecordingComplete" -> "recording_complete"
      [] op = "logPayment" -> "payment"

\* C12: logSongSelection, logRecordingComplete and logPayment change no key of the
\* store when no Account is current; when one is, the call appends exactly one
\* event to the activity log, with the method's tag and the current Account's
\* identifier as owner, and changes no other key.
C12_LogScopedToCurrent ==
    [][(LogSongSelection \/ LogRecordingComplete \/ LogPayment)
       => IF getCurrentUser(localStorage) = Null
          THEN localStorage' = localStorage
          ELSE LET after == ParseList(localStorage', "user_activities")
               IN  /\ Len(after) = Len(Activities) + 1
                   /\ SubSeq(after, 1, Len(Activities)) = Activities
                   /\ after[Len(after)].eventType = TagOf(Op(last'))
                   /\ after[Len(after)].userId = Get(getCurrentUser(localStorage)).id
                   /\ \A k \in Keys \ {"user_activities"} :
                         getItem(localStorage', k) = getItem(localStorage, k)]_vars

\* logPayment was called after a logout: there are accounts and events, nobody is
\* current, and the log holds no payment event
C12_Witness ==
    /\ Op(last) = "logPayment"
    /\ getCurrentUser(localStorage) = Null
    /\ Len(Users) > 0
    /\ Len(Activities) > 0
    /\ \A k \in DOMAIN Activities : Activities[k].eventType /= "payment"

\* the step is a call of signup (of signin) with the arguments recorded in last'
SignupStep ==
    /\ Op(last') = "signup"
    /\ \E r \in RandomSuffixes :
          \/ SignupWith(Args(last'), r)
          \/ \E reply \in Replies(RemoteAuthBodies(Args(last').email)) :
                SignupRemoteWith(Args(last'), reply.outcome, reply.data, r)

SigninStep ==
    /\ Op(last') = "signin"
    /\ \E r \in RandomSuffixes :
          \/ SigninWith(Args(last').email, Args(last').password, r)
          \/ \E reply \in Replies(RemoteAuthBodies(Args(last').email)) :
                SigninRemoteWith(Args(last').email, Args(last').password,
                                 reply.outcome, reply.data, r)

\* the activity log after the step is the log before it with one event added,
\* tagged tag and owned by the Account of the result
OneEventAdded(tag) ==
    LET after == ParseList(localStorage', "user_activities")
    IN  /\ Len(after) = Len(Activities) + 1
        /\ SubSeq(after, 1, Len(Activities)) = Activities
        /\ after[Len(after)].eventType = tag
        /\ after[Len(after)].userId = Get(Ret(last').user).id

Silent(s) == [s EXCEPT !.alert = ""]

\* C14: a stop request made while recording with the elapsed-time counter below 1
\* is refused: isRecording stays true, the recorders and the interval timers are
\* as before, no artifact is stored, and nothing else of the session changes but
\* the alert shown.
C14_EarlyStopRefused ==
    [][(StopRecording /\ session.isRecording /\ session.recordingTime < 1)
       => /\ session'.isRecording
          /\ session'.recorders = session.recorders
          /\ session'.timers = session.timers
          /\ session'.recordedBlob = session.recordedBlob
          /\ Silent(session') = Silent(session)]_vars

\* the refusal was shown while the recorder records and the timer runs
C14_Witness ==
    /\ session.alert = AlertTooShort
    /\ session.isRecording
    /\ session.recordingTime = 0
    /\ session.recordedBlob = Null
    /\ session.recorders[session.mediaRecorderRef].state = "recording"
    /\ session.recordingTimerRef \in session.timers

\* the lists of chunks a session can have buffered, in capture order
ChunkLists ==
    {<<[n |-> 1, size |-> 1]>>, <<[n |-> 2, size |-> 1]>>,
     <<[n |-> 1, size |-> 1], [n |-> 2, size |-> 1]>>}

\* Stop Recording has been accepted with the chunks c buffered: the counter is at
\* 1 or more, the timer is cleared, and the recorder has its stop event queued
StopAccepted(c) ==
    /\ session.mounted
    /\ ~session.isRecording
    /\ session.recordingTime >= 1
    /\ session.recordingTimerRef = 0
    /\ session.mediaRecorderRef /= 0
    /\ session.recorders[session.mediaRecorderRef].state = "stopping"
    /\ session.recordedChunksRef = c

\* the session is Stopped with an artifact made of the chunks c, in that order,
\* and of the chunk the recorder delivered last, if it had data
StoppedWith(c) ==
    /\ ~session.isRecording
    /\ session.recordedBlob /= Null
    /\ LET parts == Get(session.recordedBlob).parts
       IN  /\ BlobSize(parts) > 0
           /\ Len(parts) \in {Len(c), Len(c) + 1}
           /\ SubSeq(parts, 1, Len(c)) = c

\* C15: once a stop request is accepted (counter at 1 or more) with at least one
\* chunk buffered, the session eventually is Stopped, not recording, holding a
\* non-empty artifact that is the buffered chunks in capture order, unless the
\* recording screen is left.
C15_StopYieldsArtifact ==
    \A c \in ChunkLists :
        StopAccepted(c) ~> (StoppedWith(c) \/ ~session.mounted)

\* C16: Restart (offered while recording) and Record Again (offered once an
\* artifact is held) return the session to Ready whatever the state before: not
\* recording, no recorder capturing, no interval timer running, no artifact, and
\* the elapsed-time counter at 0.
C16_RestartReturnsToReady ==
    [][RestartRecording
       => /\ ~session'.isRecording
          /\ session'.recordingTime = 0
          /\ session'.recordedBlob = Null
          /\ session'.timers = {}
          /\ \A k \in DOMAIN session'.recorders :
                session'.recorders[k].state /= "recording"]_vars

\* the recording screen has been left and nothing is outstanding: every
\* getUserMedia call has been answered and no retry timer is set
Exited(s) == ~s.mounted /\ s.requests = <<>> /\ s.basicRetries = 0

\* the capture streams granted to the session whose tracks are live
LiveStreams(s) == {id \in DOMAIN s.streams : s.streams[id] = "live"}

\* C17: once the recording screen has been left, on whatever path, and the
\* outstanding grants have resolved, every capture stream granted to the session
\* is released: none has live tracks.
C17_StreamsReleasedOnExit == Exited(session) => LiveStreams(session) = {}

\* C18: at every moment the session holds at most one live capture stream: a
\* newly granted stream is stored only once the stream granted before it has
\* been released.
C18_OneLiveStream == Cardinality(LiveStreams(session)) <= 1

\* the causes of a failed grant: the four error names and the 10 s timer
Causes ==
    {"NotAllowedError", "NotFoundError", "NotReadableError", "OverconstrainedError",
     "timeout"}

\* this step is the failure, for the given cause, of getUserMedia call i of the
\* mounted component
FailedWith(i, cause) ==
    /\ session.mounted
    /\ i \in DOMAIN session.requests
    /\ ~session.requests[i].timedOut
    /\ IF cause = "timeout"
       THEN session.requests[i].kind = "full" /\ session' = timedOut(session, i)
       ELSE session' = rejected(session, i, cause)

\* the permission view is rendered with "Try Again" (the same constraints) and
\* "Try Basic Settings" (the relaxed ones)
BothRetriesOffered(s) == s.mounted /\ ~s.hasPermission /\ s.permissionError /= ""

\* C19: every failed grant, whatever its cause (denied, device not found, device
\* busy, constraints unsupported, timed out), leaves the session awaiting
\* permission (hasPermission false) with the non-empty message of that cause, and
\* with both the same-constraints and the relaxed-constraints retry offered.
C19_FailureClassified ==
    [][\A i \in 1..MaxRequests, cause \in Causes :
          FailedWith(i, cause)
          => /\ ~session'.hasPermission
             /\ session'.permissionError = errorMessage(cause)
             /\ session'.permissionError /= ""
             /\ BothRetriesOffered(session')]_vars

\* startRecording has nothing to record from: no stream is stored, permission is
\* not held, or the stored stream has no live track
NothingToRecord(s) ==
    \/ s.streamRef = 0
    \/ ~s.hasPermission
    \/ s.streams[s.streamRef] /= "live"

\* C20: the session is Ready or later (hasPermission true) only if a grant
\* succeeded and its stream is stored; and startRecording, called with no stream,
\* no permission or no live track, changes nothing but the alert shown: no
\* recorder is made, no timer is started, isRecording stays as it was.
C20_ReadyNeedsStream ==
    /\ session.hasPermission
       => /\ session.streamRef \in DOMAIN session.streams
          /\ session.streams[session.streamRef] \in {"live", "ended"}
    /\ NothingToRecord(session)
       => Silent(startRecording(session)) = Silent(session)

\* Start Recording was pressed in Ready after the tracks of the stored stream had
\* ended: the refusal was shown and nothing was started
C20_Witness ==
    /\ session.mounted
    /\ session.hasPermission
    /\ session.streamRef /= 0
    /\ session.streams[session.streamRef] = "ended"
    /\ session.alert = AlertNotActive
    /\ ~session.isRecording
    /\ session.recorders = <<>>
    /\ session.timers = {}

\* C21: Start Recording in Ready, with a live stream stored, enters Recording
\* although the reference video failed to load and its play request is rejected:
\* a recorder is made and records, isRecording becomes true, the counter is at 0
\* and the interval timer runs.
C21_RecordsWithoutReference ==
    [][(StartRecording /\ session.referenceVideo = "error" /\ ~NothingToRecord(session))
       => /\ session'.isRecording
          /\ session'.recordingTime = 0
          /\ Len(session'.recorders) = Len(session.recorders) + 1
          /\ session'.mediaRecorderRef = Len(session'.recorders)
          /\ session'.recorders[session'.mediaRecorderRef].state = "recording"
          /\ session'.recordingTimerRef \in session'.timers
          /\ session'.referenceVideo = "error"]_vars

\* a recording runs beside a reference video that failed to load: play was asked
\* for (karaokeVideoPlaying is set) and rejected
C21_Witness ==
    /\ session.isRecording
    /\ session.referenceVideo = "error"
    /\ session.karaokeVideoPlaying
    /\ session.recordingTime = 1
    /\ session.recorders[session.mediaRecorderRef].state = "recording"
    /\ session.recordingTimerRef \in session.timers

\* "Continue to Download" is rendered
CanProceed(s) == s.mounted /\ s.hasPermission /\ s.recordedBlob /= Null /\ ~s.isRecording

\* C22: when a recorder's stop event arrives and the buffered data is empty (no
\* bytes accumulated), no artifact is stored: the failure is reported, recordedBlob
\* is absent and Continue to Download is not offered; and whatever is handed over
\* by Continue to Download holds data.
C22_EmptyCaptureRejected ==
    /\ [][(RecorderStopped /\ BlobSize(session'.recordedChunksRef) = 0)
          => /\ session'.alert = AlertNoData
             /\ session'.recordedBlob = Null
             /\ session'.handedOver = session.handedOver
             /\ ~CanProceed(session')]_vars
    /\ [][ProceedToDownload
          => /\ session'.handedOver /= Null
             /\ BlobSize(Get(session'.handedOver).parts) > 0]_vars

\* a recording of a second or more was stopped without any data captured: the
\* failure was reported and there is no artifact
C22_Witness ==
    /\ session.mounted
    /\ session.alert = AlertNoData
    /\ session.recordedBlob = Null
    /\ ~session.isRecording
    /\ session.recordingTime >= 1
    /\ session.captured = 0
    /\ Len(session.recorders) = 1
    /\ session.recorders[1].state = "inactive"

\* the list a is the beginning of the list b
IsPrefix(a, b) == Len(a) <= Len(b) /\ SubSeq(b, 1, Len(a)) = a

\* C23: the activity log is append-only: whatever operation of the client runs,
\* the log after it begins with the log before it, so no stored event is changed,
\* reordered or removed.
C23_LogAppendOnly == [][IsPrefix(Activities, Activities')]_vars

\* a log of two events has been through a logout
C23_Witness ==
    /\ Op(last) = "logout"
    /\ Len(Activities) = 2
    /\ Activities[1].eventType = "signup"
    /\ Activities[2].eventType = "payment"

\* no two stored Accounts have the same email
UniqueEmails(users) ==
    \A i, j \in DOMAIN users : users[i].email = users[j].email => i = j

\* C24: in every reachable state no two Accounts of the account list have the
\* same email; and every operation leaves the Accounts stored before it, secrets
\* included, unchanged and in place: the list only grows, by one Account, at a
\* successful signup.
C24_AccountsUniqueAndKept ==
    /\ [](UniqueEmails(Users))
    /\ [][/\ IsPrefix(Users, Users')
          /\ Users' /= Users
             => /\ Op(last') = "signup"
                /\ Ret(last').success
                /\ Len(Users') = Len(Users) + 1
                /\ Users'[Len(Users')].email = Args(last').email]_vars

\* with two Accounts stored, a signup with the email of the first was refused
C24_Witness ==
    /\ Len(Users) = 2
    /\ Op(last) = "signup"
    /\ ~Ret(last).success
    /\ Args(last).email = Users[1].email
    /\ Users[1].email /= Users[2].email

\* the identifiers of the Accounts in the account store
AccountIds(ls) == {u.id : u \in Range(ParseList(ls, "fallback_users"))}

\* the step wrote an activity event, and its owner is a stored Account
EventOwnerStored ==
    Len(Activities') > Len(Activities)
    => Activities'[Len(Activities')].userId \in AccountIds(localStorage')

\* the step wrote a purchase record, and its owner is a stored Account
PurchaseOwnerStored ==
    Len(Purchases') > Len(Purchases)
    => Purchases'[Len(Purchases')].user_id \in AccountIds(localStorage')

\* C25: every activity event and every purchase record the client writes carries
\* an owner identifier that, at the moment of the write, is the identifier of an
\* Account in the local account store.
C25_OwnersExist == [][EventOwnerStored /\ PurchaseOwnerStored]_vars

\* the session as Restart or Record Again leaves it, before anything is started
\* again: not recording, no artifact, the counter at 0, its timer cleared
Discarded(s) ==
    /\ s.mounted
    /\ s.mediaRecorderRef /= 0
    /\ ~s.isRecording
    /\ s.recordedBlob = Null
    /\ s.recordingTime = 0
    /\ s.recordingTimerRef = 0

\* C26: restart discards the artifact: after Restart or Record Again the session
\* holds no artifact, and no later event (the stop event of the recorder that was
\* running included) gives it one, until a recording started after the restart is
\* stopped.
C26_RestartDiscardsArtifact ==
    /\ [][RestartRecording => session'.recordedBlob = Null]_vars
    /\ [][(Discarded(session) /\ ~StartRecording) => session'.recordedBlob = Null]_vars

\* a permission request is pending: a getUserMedia call of the mounted component
\* is unanswered, or the automatic retry is about to make one, and the view shows
\* neither Ready nor a message
RequestPending(s) ==
    /\ s.mounted
    /\ ~s.hasPermission
    /\ s.permissionError = ""
    /\ s.basicRetries > 0 \/ \E i \in DOMAIN s.requests : ~s.requests[i].timedOut

\* the request is over: Ready, or the error sub-state with its message
RequestSettled(s) == s.hasPermission \/ s.permissionError /= ""

\* this step is a grant answering a getUserMedia call whose 10 s timer had fired
LateGrant ==
    \E i \in DOMAIN session.requests :
        /\ session.requests[i].timedOut
        /\ session' = granted(session, i)

\* C27: a permission request does not stay pending forever: even if no prompt is
\* ever answered, a pending request (the automatic relaxed-constraints retry
\* included) leads to Ready or to the error sub-state with a non-empty message,
\* unless the screen is left; and a grant arriving after the timeout fired does
\* not move the session to Ready.
C27_RequestSettles ==
    /\ RequestPending(session) ~> (RequestSettled(session) \/ ~session.mounted)
    /\ [][LateGrant => session'.hasPermission = session.hasPermission]_vars

\* tokens known to have been issued before this step: those the successful signups
\* so far returned, and the one in the store
IssuedBefore ==
    {TokenFor(c.id) : c \in created}
    \cup (IF getAuthToken(localStorage) = Null THEN {} ELSE {getAuthToken(localStorage)})

\* C28: each successful signin issues a fresh session token, different from every
\* token issued by an earlier successful signup or signin, and replaces the stored
\* token and the cached Account by that token and the matched Account.
C28_SigninTokenFresh ==
    [][(SigninStep /\ Ret(last').success)
       => /\ Get(Ret(last').token) \notin IssuedBefore
          /\ getAuthToken(localStorage') = Get(Ret(last').token)
          /\ getCurrentUser(localStorage') = Ret(last').user
          /\ Get(Ret(last').user).email = Args(last').email]_vars

\* the format the preference list asks for on a platform: its earliest entry the
\* platform supports, the platform default if it supports none
PreferredFormat(types) ==
    IF \E k \in DOMAIN supportedTypes : supportedTypes[k] \in types
    THEN supportedTypes[CHOOSE k \in DOMAIN supportedTypes :
                           /\ supportedTypes[k] \in types
                           /\ \A j \in 1..(k - 1) : supportedTypes[j] \notin types]
    ELSE PlatformDefault

\* C29: Start Recording makes a recorder whose format is the first entry of the
\* preference list (webm/vp8+opus, webm/vp9+opus, webm, mp4) the platform
\* supports, the platform default when it supports none; and the artifact made at
\* the stop event, and handed over, is tagged with that recorder's format.
C29_FormatNegotiated ==
    /\ [][(StartRecording /\ ~NothingToRecord(session))
          => session'.recorders[session'.mediaRecorderRef].mimeType
                = PreferredFormat(session.isTypeSupported)]_vars
    /\ [][\A k \in DOMAIN session.recorders :
             (/\ session.recorders[k].state = "stopping"
              /\ session'.recorders[k].state = "inactive"
              /\ session'.recordedBlob /= Null)
             => Get(session'.recordedBlob).type = session.recorders[k].mimeType]_vars
    /\ [][ProceedToDownload
          => Get(session'.handedOver).type = PreferredFormat(session.isTypeSupported)]_vars

\* on a platform that supports only the last two entries, an artifact was made
\* and is tagged with the earlier of the two
C29_Witness ==
    /\ session.isTypeSupported = {"video/webm", "video/mp4"}
    /\ session.recordedBlob /= Null
    /\ Get(session.recordedBlob).type = "video/webm"
    /\ session.recorders[1].mimeType = "video/webm"
    /\ session.recorders[1].state = "inactive"

\* C30: the elapsed-time counter advances only while the session is Recording: in
\* every reachable state at most one interval timer is running, and none is
\* running when the session is not recording (after a stop, a restart, a recorder
\* error) or when the screen has been left.
C30_TickerOnlyWhileRecording ==
    /\ Cardinality(session.timers) <= 1
    /\ (~session.isRecording \/ ~session.mounted) => session.timers = {}

\* C31: after any sequence of signup, signin and logout, in either mode and for
\* any answer of the remote API, the session token and the cached Account are
\* present together or absent together: isAuthenticated() is true exactly when
\* getCurrentUser() returns an Account; and in fallback mode a token present is
\* the one derived from the cached Account's identifier.
C31_TokenAndAccountTogether ==
    /\ isAuthenticated(localStorage) <=> getCurrentUserOutcome(localStorage) = "account"
    /\ (useFallback /\ isAuthenticated(localStorage))
       => getAuthToken(localStorage) = TokenFor(Get(getCurrentUser(localStorage)).id)

\* the step is a signin that returned a failure (the clock and the calls in
\* flight tell it from the steps that leave the last call in place)
FailedSigninStep ==
    /\ Op(last') = "signin"
    /\ ~Ret(last').success
    /\ now' = now
    /\ pending' = pending

\* C32: a signin that fails leaves the whole store as it was: the account list,
\* the activity log, the purchases, and the token and cached Account of a session
\* already in place.
C32_FailedSigninChangesNothing ==
    [][FailedSigninStep => localStorage' = localStorage]_vars

\* a signin was refused while another Account's session was in place, with events
\* and a purchase stored
C32_Witness ==
    /\ Op(last) = "signin"
    /\ ~Ret(last).success
    /\ isAuthenticated(localStorage)
    /\ getCurrentUser(localStorage) /= Null
    /\ Get(getCurrentUser(localStorage)).email /= Args(last).email
    /\ Len(Users) >= 1
    /\ Len(Activities) >= 1
    /\ Len(Purchases) >= 1

\* C33: distinct Accounts created by signup have distinct identifiers in every
\* reachable state, two signups within one tick of the clock included, so that a
\* token, an event's owner field and getUserReport(id) each identify one Account.
C33_DistinctIdentifiers ==
    \A i, j \in DOMAIN Users : Users[i].id = Users[j].id => i = j

\* the record has no secret field
NoSecretField(rec) == "password" \notin DOMAIN rec

\* a report, and the events in it, have no secret field
NoSecretInReport(report) ==
    /\ NoSecretField(report)
    /\ \A a \in Range(report.activities) : NoSecretField(a) /\ NoSecretField(a.details)

\* C34: the account secret is stored only in the account list: in every reachable
\* state the cached Account, the user returned by signup and signin, the events
\* of the activity log and every UserReport have no secret field, and no secret
\* given at signup appears in the export.
C34_SecretOnlyInAccountList ==
    /\ getCurrentUser(localStorage) /= Null
       => NoSecretField(Get(getCurrentUser(localStorage)))
    /\ (Op(last) \in {"signup", "signin"} /\ Ret(last).user /= Null)
       => NoSecretField(Get(Ret(last).user))
    /\ \A a \in Range(Activities) : NoSecretField(a) /\ NoSecretField(a.details)
    /\ \A report \in Range(getAllUserReports(localStorage)) : NoSecretInReport(report)
    /\ \A text \in Range(exportUserData(localStorage)) : text \notin Passwords

\* an Account signed up with a secret and signed in with it: the Account is cached
\* and reported, and the secret is in the account list
C34_Witness ==
    /\ Op(last) = "signin"
    /\ Ret(last).success
    /\ getCurrentUser(localStorage) = Ret(last).user
    /\ \E u \in Range(Users) :
          /\ u.email = Args(last).email
          /\ u.password = Args(last).password
    /\ Len(getAllUserReports(localStorage)) = 2
    /\ Len(Activities) = 3

====
